---- MODULE Spec2Model ----
(***************************************************************************)
(* A model of the SimpleTuner RunPod serverless handler                    *)
(* (src/simpletuner_docker/handler.py): the job pipeline of handler(),     *)
(* the argument encoding of prepare_training_args, the process supervision *)
(* of run_training and the two publish modes of upload_results, over the   *)
(* worker's staging directories, which outlive a job.                      *)
(***************************************************************************)
EXTENDS Integers, Sequences, FiniteSets, TLC

(***************************************************************************)
(* Bounds of the model.                                                    *)
(***************************************************************************)
\* jobs one worker handles, one after the other
MaxJobs == 2
\* lines the training child writes to its merged output
MaxLines == 2
\* entries of a config mapping
MaxEntries == 2
\* items of a list-valued config entry
MaxItems == 2

(***************************************************************************)
(* Paths (handler.py, lines 24-42).                                        *)
(***************************************************************************)
WORKSPACE_DIR == "/workspace"
INPUT_DIR == WORKSPACE_DIR \o "/inputs"
OUTPUT_DIR == WORKSPACE_DIR \o "/outputs"
DATASET_DIR == WORKSPACE_DIR \o "/dataset"
CONFIG_DIR == WORKSPACE_DIR \o "/config"
LOG_DIR == WORKSPACE_DIR \o "/logs"

\* os.path.join(dir, name) for a relative name
PathJoin(dir, name) == dir \o "/" \o name

\* a path the handler holds: its directory and its base name
\* (os.path.basename); NoPath stands for None
Path(dir, name) == [dir |-> dir, name |-> name]
NoPath == Path("", "")
PathText(p) == PathJoin(p.dir, p.name)

(***************************************************************************)
(* JSON values of a config mapping.  Every value is a record of the same   *)
(* shape; t is the Python type the JSON value is loaded as.                *)
(***************************************************************************)
VBool(b) == [t |-> "bool", b |-> b, n |-> 0, s |-> "", items |-> << >>]
VInt(n) == [t |-> "int", b |-> FALSE, n |-> n, s |-> "", items |-> << >>]
VStr(s) == [t |-> "str", b |-> FALSE, n |-> 0, s |-> s, items |-> << >>]
VNone == [t |-> "None", b |-> FALSE, n |-> 0, s |-> "", items |-> << >>]
\* a list of scalars, each item one of the records above
VList(items) == [t |-> "list", b |-> FALSE, n |-> 0, s |-> "", items |-> items]

\* Python's str(value)
Str(value) ==
  CASE value.t = "bool" -> (IF value.b THEN "True" ELSE "False")
    [] value.t = "int" -> ToString(value.n)
    [] value.t = "str" -> value.s
    [] OTHER -> "None"

\* Python's truth value of a JSON value
Truthy(value) ==
  CASE value.t = "bool" -> value.b
    [] value.t = "int" -> value.n # 0
    [] value.t = "str" -> value.s # ""
    [] value.t = "list" -> Len(value.items) > 0
    [] OTHER -> FALSE

\* f"--{key}"
Flag(key) == "--" \o key

(***************************************************************************)
(* prepare_training_args (handler.py, lines 157-185).  A config mapping is *)
(* the sequence of its entries [k, v] in insertion order, keys distinct.   *)
(***************************************************************************)
\* the mutant of ItemTokens: the flag once, then every item
ItemTokensFlagOnce(key, items) ==
  IF items = << >> THEN << >>
  ELSE <<Flag(key)>> \o [i \in 1..Len(items) |-> Str(items[i])]

RECURSIVE ItemTokens(_, _)
\* lines 177-178: for item in value: args.extend([f"--{key}", str(item)])
ItemTokens(key, items) ==
  IF items = << >> THEN << >>
  ELSE <<Flag(key), Str(Head(items))>> \o ItemTokens(key, Tail(items))

\* the mutant of EntryTokens: the scalar test made before the bool test
\* (a Python bool is an int)
EntryTokensScalarFirst(key, value) ==
  IF value.t \in {"str", "int", "bool"} /\ Truthy(value)
    THEN <<Flag(key), Str(value)>>
  ELSE IF value.t = "list" /\ Truthy(value) THEN ItemTokens(key, value.items)
  ELSE << >>

\* the mutant of EntryTokens: a scalar is not tested for truth
EntryTokensNoTruthTest(key, value) ==
  IF value.t = "bool" THEN (IF value.b THEN <<Flag(key)>> ELSE << >>)
  ELSE IF value.t \in {"str", "int"} THEN <<Flag(key), Str(value)>>
  ELSE IF value.t = "list" /\ Truthy(value) THEN ItemTokens(key, value.items)
  ELSE << >>

\* lines 171-178: the tokens one entry of the mapping contributes
EntryTokens(key, value) ==
  IF value.t = "bool" THEN (IF value.b THEN <<Flag(key)>> ELSE << >>)
  ELSE IF value.t \in {"str", "int"} /\ Truthy(value)
    THEN <<Flag(key), Str(value)>>
  ELSE IF value.t = "list" /\ Truthy(value) THEN ItemTokens(key, value.items)
  ELSE << >>

RECURSIVE ConfigTokens(_)
\* lines 170-178: for key, value in config.items()
ConfigTokens(config) ==
  IF config = << >> THEN << >>
  ELSE EntryTokens(Head(config).k, Head(config).v) \o ConfigTokens(Tail(config))

\* lines 180-183: if dataloader_config: the pair naming dataloader.json
DataloaderTokens(dataloader_config) ==
  IF dataloader_config # << >>
    THEN <<"--dataloader_config", PathJoin(CONFIG_DIR, "dataloader.json")>>
    ELSE << >>

\* lines 161-185
prepare_training_args(config, dataloader_config, dataset_path) ==
  <<"--train_data_dir", dataset_path, "--output_dir", OUTPUT_DIR>>
    \o ConfigTokens(config)
    \o DataloaderTokens(dataloader_config)

(***************************************************************************)
(* The job request (handler.py, lines 288-299, 328).  A dataset reference  *)
(* is a record: given is FALSE when the input has no dataset_url, and the  *)
(* empty string has every part empty.  ext is what os.path.splitext finds  *)
(* on the part before '?', query the part from '?' on.                     *)
(***************************************************************************)
NoUrl == [given |-> FALSE, scheme |-> "", stem |-> "", ext |-> "", query |-> ""]
EmptyUrl == [given |-> TRUE, scheme |-> "", stem |-> "", ext |-> "", query |-> ""]
Url(scheme, stem, ext, query) ==
  [given |-> TRUE, scheme |-> scheme, stem |-> stem, ext |-> ext, query |-> query]

\* the text of a reference
UrlText(u) == u.scheme \o u.stem \o u.ext \o u.query

\* the mutant of UrlTruthy: only a missing dataset_url is refused
UrlGiven(u) == u.given

\* line 292: not dataset_url (None and "" are falsy)
UrlTruthy(u) == u.given /\ UrlText(u) # ""

\* line 90: dataset_url.startswith(('http://', 'https://'))
IsHttp(u) == u.scheme \in {"http://", "https://"}

\* line 117: the extensions download_dataset extracts
ArchiveExtensions == {".zip", ".tar", ".gz", ".tar.gz", ".tgz"}

\* the dataset references of the model's requests
DatasetUrls ==
  { NoUrl, EmptyUrl,
    Url("http://", "x/data", ".zip", ""),
    Url("s3://", "bucket/img", ".png", "?sig=1") }

\* a config as the request carries it: a JSON object (its entries), or a
\* JSON value that is no object (null), which has no items()
Mapping(entries) == [mapping |-> TRUE, entries |-> entries]
NotAMapping == [mapping |-> FALSE, entries |-> << >>]

\* the configs of the model's requests (scenario A of the spec, and null)
Configs ==
  { Mapping(<<[k |-> "num_epochs", v |-> VInt(3)],
              [k |-> "use_ema", v |-> VBool(TRUE)]>>),
    NotAMapping }

\* the dataloader configurations: absent (the default {}), or one entry
Dataloaders == { << >>, <<[k |-> "resolution", v |-> VInt(512)]>> }

\* a signed URL: the part before the first '?', and the rest
SignedUrl(base, query) == [base |-> base, query |-> query]

\* line 265: signed_urls[file_key].split('?')[0]
StripQuery(u) == u.base

\* the name of the log file of the job that starts at second t (line 201)
LogName(t) == "training_" \o ToString(t) \o ".log"

\* the names of the files a training child writes below the output dir
OutputNames == {"model.safetensors"}

EmptyMap == [k \in {} |-> SignedUrl("", "")]

\* the signed-URL maps of the model's requests: absent or empty, one for
\* the model file, one that also names the first job's log file
SignedUrlMaps ==
  { EmptyMap,
    [k \in {"model.safetensors"} |-> SignedUrl("https://s/" \o k, "?sig=2")],
    [k \in {"model.safetensors", LogName(1)} |->
       SignedUrl("https://s/" \o k, "?sig=2")] }

Requests ==
  [dataset_url : DatasetUrls, config : Configs, dataloader : Dataloaders,
   signed_urls : SignedUrlMaps]

(***************************************************************************)
(* The training child: the lines it writes, and its exit codes.            *)
(***************************************************************************)
\* the i-th line the child writes: its text, and the white space that ends
\* it (the line break included)
RawLine(i) == [text |-> "step " \o ToString(i), space |-> "  \n"]

\* line 217: line.rstrip()
Rstrip(raw) == raw.text

ExitCodes == {0, 137}

(***************************************************************************)
(* State.                                                                  *)
(***************************************************************************)
VARIABLES
  job,              \* the number of the job being handled (0: none yet)
  pc,               \* where the handler is
  input_data,       \* event["input"]
  datasetDirExists, \* DATASET_DIR exists
  datasetDir,       \* the files of DATASET_DIR
  inputDir,         \* the files of INPUT_DIR
  outputDir,        \* the files below OUTPUT_DIR
  bundle,           \* WORKSPACE_DIR/results.zip: its entries
  download_path,    \* download_dataset's download_path
  dataset_path,     \* handler's dataset_path
  config_path,      \* handler's config_path
  dataloader_path,  \* handler's dataloader_path
  training_args,    \* handler's training_args
  argv,             \* the arguments train.py was started with
  log_open,         \* run_training's log_file is open
  log_file,         \* the lines written to the log file of this job
  logged,           \* the lines forwarded to the logger by run_training
  logs,             \* run_training's logs
  read_error,       \* run_training's except clause (line 222) was entered
  unread,           \* the lines the child has yet to write to a pipe that
                    \* run_training no longer reads
  returncode,       \* process.returncode (-1: not exited)
  success,          \* handler's success
  output_files,     \* handler's output_files: key -> path
  attempted,        \* the keys upload_file_to_signed_url was called for
  failed,           \* the keys for which it raised
  raised,           \* the message of the exception handler caught ("": none)
  found,            \* what download_dataset found at DATASET_DIR
  result,           \* what handler returned (no key while it runs)
  \* the remote client (run_remote_training.py)
  cpc,              \* where the client is
  http_steps,       \* the upload requests it has sent, in order, and
                    \* how each ended
  submits,          \* the calls of runpod.run_job
  polls,            \* the calls of runpod.get_job (counted up to MaxPolls)
  remote,           \* the status of the remote job ("": none submitted)
  status,           \* main's status: what the last status check returned
  output,           \* main's output: status_response["output"]
  pending,          \* download_results: the entries still to go through
  downloads,        \* the entries a download was attempted for, in order
  printed,          \* of a terminal job: the success message, the
                    \* files downloaded, and "log_summary" or "error"
                    \* once the client printed it
  client_error      \* the exception that ended the client ("": none)

handlerVars ==
  <<job, pc, input_data, datasetDirExists, datasetDir, inputDir, outputDir,
    bundle, download_path, dataset_path, config_path, dataloader_path,
    training_args, log_open, log_file, logged, logs, read_error, unread,
    returncode, success, output_files, attempted, failed, raised, found,
    result, argv>>

clientVars ==
  <<cpc, http_steps, submits, polls, remote, status, output, pending,
    downloads, printed, client_error>>

vars == <<handlerVars, clientVars>>

fsVars == <<datasetDirExists, datasetDir, inputDir, outputDir, bundle>>
trainVars ==
  <<argv, log_open, log_file, logged, logs, read_error, unread, returncode,
    success>>
publishVars == <<output_files, attempted, failed>>

\* a file of a staging directory: its name below the directory, and
\* whether the job being handled wrote it (a file an earlier job left is
\* not fresh).  CONFIG_DIR and LOG_DIR are written and never read: the
\* model keeps the log file's lines (log_file) and no directory for them.
File(name, fresh) == [name |-> name, fresh |-> fresh]

\* dir after the job being handled (over)writes name
Put(dir, name) == {f \in dir : f.name # name} \cup {File(name, TRUE)}

\* dir when the next job starts
Left(dir) == {File(f.name, FALSE) : f \in dir}

Names(dir) == {f.name : f \in dir}

NoResult == [k \in {} |-> ""]
NoFiles == [k \in {} |-> ""]

\* the mutant of ErrorResult: the message is replaced by a fixed text
ErrorResultGeneric(msg) ==
  [error |-> "Internal error",
   traceback |-> "Traceback (most recent call last): " \o msg]

\* lines 342-348: what handler returns for an exception with message msg
ErrorResult(msg) ==
  [error |-> msg,
   traceback |-> "Traceback (most recent call last): " \o msg]

(***************************************************************************)
(* The initial state: the module has created the staging directories       *)
(* (lines 33-38) and no job has been received.                             *)
(***************************************************************************)
IdleRequest ==
  [dataset_url |-> NoUrl, config |-> Mapping(<< >>), dataloader |-> << >>,
   signed_urls |-> EmptyMap]

\* the client has not started
ClientInit ==
  /\ cpc = "main"
  /\ http_steps = << >>
  /\ submits = 0
  /\ polls = 0
  /\ remote = ""
  /\ status = ""
  /\ output = NoResult
  /\ pending = << >>
  /\ downloads = << >>
  /\ printed = {}
  /\ client_error = ""

LocalsInit ==
  /\ download_path = NoPath
  /\ dataset_path = NoPath
  /\ config_path = NoPath
  /\ dataloader_path = NoPath
  /\ training_args = << >>
  /\ argv = << >>
  /\ log_open = FALSE
  /\ log_file = << >>
  /\ logged = << >>
  /\ logs = << >>
  /\ read_error = FALSE
  /\ unread = 0
  /\ returncode = -1
  /\ success = FALSE
  /\ output_files = NoFiles
  /\ attempted = << >>
  /\ failed = {}
  /\ raised = ""
  /\ found = "-"
  /\ result = NoResult

Init ==
  /\ job = 0
  /\ pc = "idle"
  /\ input_data = IdleRequest
  /\ datasetDirExists = TRUE
  /\ datasetDir = {}
  /\ inputDir = {}
  /\ outputDir = {}
  /\ bundle = [entries |-> {}, fresh |-> FALSE]
  /\ LocalsInit
  /\ ClientInit

\* handler returns r from its try block
Return(r) ==
  /\ pc' = "done"
  /\ result' = r
  /\ raised' = ""

\* an exception with message msg leaves the try block: the except clause
\* (lines 342-348) returns
Raise(msg) ==
  /\ pc' = "done"
  /\ result' = ErrorResult(msg)
  /\ raised' = msg

\* handler goes on
Continue(to) ==
  /\ pc' = to
  /\ UNCHANGED <<result, raised>>

(***************************************************************************)
(* handler, lines 285-299: a job is received, on a worker that handles one *)
(* job at a time.  The locals of the last job are gone.                    *)
(***************************************************************************)
HandlerStart(e) ==
  /\ UNCHANGED clientVars
  /\ pc \in {"idle", "done"}
  /\ job < MaxJobs
  /\ job' = job + 1
  /\ input_data' = e
  /\ download_path' = NoPath
  /\ dataset_path' = NoPath
  /\ config_path' = NoPath
  /\ dataloader_path' = NoPath
  /\ training_args' = << >>
  /\ argv' = << >>
  /\ log_open' = FALSE
  /\ log_file' = << >>
  /\ logged' = << >>
  /\ logs' = << >>
  /\ read_error' = FALSE
  /\ unread' = 0
  /\ returncode' = -1
  /\ success' = FALSE
  /\ output_files' = NoFiles
  /\ attempted' = << >>
  /\ failed' = {}
  /\ found' = "-"
  /\ IF ~UrlTruthy(e.dataset_url)
       THEN Return([error |-> "No dataset_url provided in the input"])
       ELSE /\ pc' = "download_dataset"
            /\ result' = NoResult
            /\ raised' = ""
  /\ datasetDir' = Left(datasetDir)
  /\ inputDir' = Left(inputDir)
  /\ outputDir' = Left(outputDir)
  /\ bundle' = [entries |-> Left(bundle.entries), fresh |-> FALSE]
  /\ UNCHANGED datasetDirExists

(***************************************************************************)
(* download_dataset, lines 77-86: the dataset directory is cleared and     *)
(* made again, outside the try.  shutil.rmtree or os.makedirs may raise    *)
(* (OSError), which leaves handler through its except clause.              *)
(***************************************************************************)
\* the mutant of Cleared: the directory is made (exist_ok) and not cleared
ClearedNot(dir) == dir

\* lines 80-82: shutil.rmtree(DATASET_DIR), then os.makedirs
Cleared(dir) == {}

ResetDatasetDir ==
  /\ UNCHANGED clientVars
  /\ pc = "download_dataset"
  /\ found' = IF ~datasetDirExists THEN "absent"
              ELSE IF datasetDir = {} THEN "empty" ELSE "populated"
  /\ \/ /\ datasetDirExists' = TRUE
        /\ datasetDir' = Cleared(datasetDir)
        /\ download_path' =
             Path(INPUT_DIR, "dataset" \o input_data.dataset_url.ext)
        /\ Continue("downloading")
     \/ /\ datasetDirExists
        /\ Raise("OSError: rmtree")
        /\ UNCHANGED <<datasetDirExists, datasetDir, download_path>>
     \/ /\ datasetDirExists' = FALSE
        /\ datasetDir' = {}
        /\ Raise("OSError: makedirs")
        /\ UNCHANGED download_path
  /\ UNCHANGED <<job, input_data, inputDir, outputDir,
                 bundle, dataset_path, config_path, dataloader_path, training_args>>
  /\ UNCHANGED <<trainVars, publishVars>>

\* the files of INPUT_DIR line 110 accepts
Selectable(dir) == {f \in dir : f.name \notin {"config.json", "dataloader.json"}}

\* lines 303-306: download_dataset returned None
AcquisitionFailed == Return([error |-> "Failed to download or extract dataset"])

(***************************************************************************)
(* download_dataset, lines 88-114, inside the try.  A direct URL is        *)
(* streamed to download_path; any other reference goes to runpod's         *)
(* download_files_from_urls, which names the file itself, and the first    *)
(* file os.listdir yields (in any order) that is no config artifact is     *)
(* taken.  An exception makes download_dataset return None.                *)
(***************************************************************************)
DownloadFile ==
  /\ UNCHANGED clientVars
  /\ pc = "downloading"
  /\ \/ /\ IsHttp(input_data.dataset_url)
        /\ inputDir' =
             Put(inputDir, "dataset" \o input_data.dataset_url.ext)
        /\ Continue("downloaded")
        /\ UNCHANGED download_path
     \/ /\ ~IsHttp(input_data.dataset_url)
        /\ \E got \in BOOLEAN :
             /\ inputDir' =
                  IF got
                    THEN Put(inputDir,
                             "file" \o ToString(job) \o input_data.dataset_url.ext)
                    ELSE inputDir
             /\ IF Selectable(inputDir') = {}
                  THEN UNCHANGED download_path
                  ELSE \E f \in Selectable(inputDir') :
                         download_path' = Path(INPUT_DIR, f.name)
        /\ Continue("downloaded")
     \/ /\ AcquisitionFailed
        /\ UNCHANGED <<inputDir, download_path>>
  /\ UNCHANGED <<job, input_data, found, datasetDirExists, datasetDir, outputDir,
                 bundle, dataset_path, config_path, dataloader_path, training_args>>
  /\ UNCHANGED <<trainVars, publishVars>>

\* download_dataset's parameter extract: handler passes none (line 302),
\* so it has its default (line 73)
extract == TRUE

(***************************************************************************)
(* download_dataset, lines 116-141, and handler, lines 303-306.            *)
(***************************************************************************)
ExtractOrMove ==
  /\ UNCHANGED clientVars
  /\ pc = "downloaded"
  /\ \/ /\ extract
        /\ input_data.dataset_url.ext \in ArchiveExtensions
        /\ datasetDir' = Put(datasetDir, "images/1.png")
        /\ dataset_path' = Path(WORKSPACE_DIR, "dataset")
        /\ Continue("save_configs")
        /\ UNCHANGED inputDir
     \/ /\ extract
        /\ input_data.dataset_url.ext \in ArchiveExtensions
        /\ AcquisitionFailed
        /\ UNCHANGED <<inputDir, datasetDir, dataset_path>>
     \/ /\ ~(extract /\ input_data.dataset_url.ext \in ArchiveExtensions)
        /\ IF ~extract
             THEN /\ datasetDir' = Put(datasetDir, download_path.name)
                  /\ inputDir' = {f \in inputDir : f.name # download_path.name}
                  /\ dataset_path' = Path(DATASET_DIR, download_path.name)
             ELSE /\ dataset_path' = download_path
                  /\ UNCHANGED <<inputDir, datasetDir>>
        /\ Continue("save_configs")
  /\ UNCHANGED <<job, input_data, found, datasetDirExists, outputDir, bundle,
                 download_path, config_path, dataloader_path, training_args>>
  /\ UNCHANGED <<trainVars, publishVars>>

(***************************************************************************)
(* handler, lines 308-312, with save_config_file, lines 143-155: a failed  *)
(* write is caught and gives None.                                         *)
(***************************************************************************)
SaveConfigs ==
  /\ UNCHANGED clientVars
  /\ pc = "save_configs"
  /\ \E okc \in BOOLEAN, okd \in BOOLEAN :
       /\ (input_data.dataloader = << >>) => okd
       /\ config_path' = IF okc THEN Path(CONFIG_DIR, "config.json") ELSE NoPath
       /\ dataloader_path' =
            IF input_data.dataloader # << >> /\ okd
              THEN Path(CONFIG_DIR, "dataloader.json")
              ELSE NoPath
  /\ pc' = "prepare_args"
  /\ UNCHANGED <<job, input_data, found, datasetDirExists, datasetDir, inputDir,
                 outputDir, bundle, download_path, dataset_path,
                 training_args, result, raised>>
  /\ UNCHANGED <<trainVars, publishVars>>

(***************************************************************************)
(* handler, line 315.  config.items() raises for a config that is no       *)
(* mapping.                                                                *)
(***************************************************************************)
PrepareArgs ==
  /\ UNCHANGED clientVars
  /\ pc = "prepare_args"
  /\ \/ /\ input_data.config.mapping
        /\ training_args' =
             prepare_training_args(input_data.config.entries,
                                   input_data.dataloader,
                                   PathText(dataset_path))
        /\ Continue("run_training")
     \/ /\ ~input_data.config.mapping
        /\ Raise("AttributeError: 'NoneType' object has no attribute 'items'")
        /\ UNCHANGED training_args
  /\ UNCHANGED <<job, input_data, found, download_path, dataset_path,
                 config_path, dataloader_path>>
  /\ UNCHANGED <<fsVars, trainVars, publishVars>>

(***************************************************************************)
(* run_training (lines 187-234).  int(time.time()) is a later second in    *)
(* every job: the model takes the job's number for it.                     *)
(***************************************************************************)
log_file_path == Path(LOG_DIR, LogName(job))

\* a token of the command line as bash reads it: its words, and between
\* them the characters bash gives a meaning, the space and the ';'.  The
\* tokens of the model that hold such a character are listed; every other
\* token is one word.  The empty string has no word.
Chunks(token) ==
  CASE token = "" -> << >>
    [] token = "a photo" -> <<"a", " ", "photo">>
    [] token = "x;id" -> <<"x", ";", "id">>
    [] OTHER -> <<token>>

\* lines 191-196: " ".join([str(arg) for arg in args]), what follows
\* "python train.py " in the string bash -c is given
RECURSIVE JoinArgs(_)
JoinArgs(args) ==
  IF args = << >> THEN << >>
  ELSE IF Len(args) = 1 THEN Chunks(args[1])
  ELSE Chunks(Head(args)) \o <<" ">> \o JoinArgs(Tail(args))

\* bash splits the command into words at the spaces, and ';' ends the
\* command: what follows is another command
RECURSIVE ShellWords(_, _, _)
ShellWords(chunks, word, words) ==
  LET done == IF word = "" THEN words ELSE Append(words, word)
  IN  IF chunks = << >> \/ Head(chunks) = ";" THEN done
      ELSE IF Head(chunks) = " " THEN ShellWords(Tail(chunks), "", done)
      ELSE ShellWords(Tail(chunks), word \o Head(chunks), words)

\* lines 191-211: the arguments train.py receives
Argv(args) == ShellWords(JoinArgs(args), "", << >>)

\* lines 200-211: the log file is opened, then the child is spawned.
\* Either may raise OSError, which run_training does not catch.
StartTraining ==
  /\ UNCHANGED clientVars
  /\ pc = "run_training"
  /\ \/ /\ Raise("OSError: open")
        /\ UNCHANGED <<log_open, argv>>
     \/ /\ log_open' = TRUE
        /\ Raise("OSError: Popen")
        /\ UNCHANGED argv
     \/ /\ log_open' = TRUE
        /\ argv' = Argv(training_args)
        /\ Continue("reading")
  /\ UNCHANGED <<job, input_data, found, datasetDirExists, datasetDir, inputDir,
                 outputDir, bundle, download_path, dataset_path,
                 config_path, dataloader_path, training_args, log_file, logged, logs,
                 read_error, unread, returncode, success>>
  /\ UNCHANGED publishVars

\* the lines a pipe holds: a child with more than these to write, and no
\* reader, is blocked in its write
PipeCapacity == 1

\* lines 222-223: the except clause ends the reading; the child may have
\* more to write
ReaderStopped ==
  /\ read_error' = TRUE
  /\ unread' \in {0, PipeCapacity, PipeCapacity + 1}

\* lines 216-223: one line of the child's merged output.  A failed write
\* (OSError) is caught by the except clause, which ends the loop.
ReadLine ==
  /\ UNCHANGED clientVars
  /\ pc = "reading"
  /\ Len(logs) < MaxLines
  /\ LET line == Rstrip(RawLine(Len(logs) + 1))
       IN  /\ logs' = Append(logs, line)
           /\ \/ /\ log_file' = Append(log_file, line \o "\n")
                 /\ logged' = Append(logged, line)
                 /\ pc' = "reading"
                 /\ UNCHANGED <<read_error, unread>>
              \/ /\ pc' = "waiting"
                 /\ ReaderStopped
                 /\ UNCHANGED <<log_file, logged>>
  /\ UNCHANGED <<job, input_data, found, download_path, dataset_path,
                 config_path, dataloader_path, training_args, log_open, returncode,
                 success, result, raised, argv>>
  /\ UNCHANGED <<fsVars, publishVars>>

\* line 216: the stream ends (the child has closed its output), or
\* reading it raises (UnicodeDecodeError), which line 222 catches
ReadEnd ==
  /\ UNCHANGED clientVars
  /\ pc = "reading"
  /\ pc' = "waiting"
  /\ \/ UNCHANGED <<read_error, unread>>
     \/ ReaderStopped
  /\ UNCHANGED <<job, input_data, found, download_path, dataset_path,
                 config_path, dataloader_path, training_args, result, raised,
                 log_open, log_file, logged, logs, returncode, success, argv>>
  /\ UNCHANGED <<fsVars, publishVars>>

\* the mutant of Succeeded: only exit code 1 counts as a failure
SucceededUnlessOne(code) == code # 1

\* lines 229-234: the success flag run_training returns
Succeeded(code) == ~(code # 0)

\* the mutant of AfterTraining: a failed training ends the job's work
AfterTrainingFailFast(ok) == IF ok THEN "collect" ELSE "publish"

\* lines 318-321: handler goes on to collect_output_files whatever
\* run_training returned
AfterTraining(ok) == "collect"

\* the child cannot exit: it is blocked writing to a full pipe that
\* nobody reads
ChildBlocked == unread > PipeCapacity

\* lines 224-234: process.wait() returns once the child has exited, and
\* the log file is closed.  By then the child has written its files below
\* OUTPUT_DIR.
WaitChild ==
  /\ UNCHANGED clientVars
  /\ pc = "waiting"
  /\ ~ChildBlocked
  /\ unread' = 0
  /\ UNCHANGED read_error
  /\ \E code \in ExitCodes, out \in SUBSET OutputNames :
       /\ returncode' = code
       /\ success' = Succeeded(code)
       /\ outputDir' = {f \in outputDir : f.name \notin out}
                         \cup {File(n, TRUE) : n \in out}
       /\ pc' = AfterTraining(Succeeded(code))
  /\ log_open' = FALSE
  /\ UNCHANGED <<job, input_data, found, datasetDirExists, datasetDir, inputDir, bundle, download_path, dataset_path,
                 config_path, dataloader_path, training_args, log_file, logged, logs,
                 result, raised, argv>>
  /\ UNCHANGED publishVars

(***************************************************************************)
(* collect_output_files (lines 236-249) and handler, lines 321-325.        *)
(***************************************************************************)
collect_output_files ==
  [k \in Names(outputDir) |-> PathJoin(OUTPUT_DIR, k)]

\* lines 324-325: output_files[os.path.basename(log_file_path)] = log_file_path
WithLogFile(files) ==
  [k \in DOMAIN files \cup {log_file_path.name} |->
     IF k = log_file_path.name THEN PathText(log_file_path) ELSE files[k]]

Collect ==
  /\ UNCHANGED clientVars
  /\ pc = "collect"
  /\ output_files' = WithLogFile(collect_output_files)
  /\ pc' = "publish"
  /\ UNCHANGED <<job, input_data, found, download_path, dataset_path,
                 config_path, dataloader_path, training_args, attempted, failed,
                 result, raised>>
  /\ UNCHANGED <<fsVars, trainVars>>

(***************************************************************************)
(* upload_results (lines 251-279).                                         *)
(***************************************************************************)
\* line 259: signed_urls and isinstance(signed_urls, dict); the maps of the
\* model are all dicts
SignedMode(signed_urls) == DOMAIN signed_urls # {}

\* a set as a sequence, in some order: the order of a dict's keys
RECURSIVE KeysOf(_)
KeysOf(S) ==
  IF S = {} THEN << >>
  ELSE LET k == CHOOSE x \in S : TRUE IN <<k>> \o KeysOf(S \ {k})

\* the mutant of Selected: every collected file is uploaded
SelectedAll(file_key, signed_urls) == TRUE

\* line 262: if file_key in signed_urls
Selected(file_key, signed_urls) == file_key \in DOMAIN signed_urls

\* the mutant of UploadLoop: the first upload that raises ends the loop
RECURSIVE UploadLoopAbort(_, _, _, _)
UploadLoopAbort(keys, signed_urls, failing, acc) ==
  IF keys = << >> THEN acc
  ELSE LET k == Head(keys)
           tried == Append(acc.attempted, k)
       IN  IF k \notin DOMAIN signed_urls
             THEN UploadLoopAbort(Tail(keys), signed_urls, failing, acc)
           ELSE IF k \in failing
             THEN [attempted |-> tried, result_urls |-> acc.result_urls]
           ELSE UploadLoopAbort(Tail(keys), signed_urls, failing,
                  [attempted |-> tried,
                   result_urls |->
                     [x \in DOMAIN acc.result_urls \cup {k} |->
                        IF x = k THEN StripQuery(signed_urls[k])
                        ELSE acc.result_urls[x]]])

\* lines 261-267: the loop over output_files.items(); failing holds the
\* keys whose upload raises.  acc is [attempted, result_urls].
RECURSIVE UploadLoop(_, _, _, _)
UploadLoop(keys, signed_urls, failing, acc) ==
  IF keys = << >> THEN acc
  ELSE LET k == Head(keys)
       IN  IF Selected(k, signed_urls)
             THEN UploadLoop(Tail(keys), signed_urls, failing,
                    [attempted |-> Append(acc.attempted, k),
                     result_urls |->
                       IF k \in failing \/ k \notin DOMAIN signed_urls
                         THEN acc.result_urls
                         ELSE [x \in DOMAIN acc.result_urls \cup {k} |->
                                 IF x = k THEN StripQuery(signed_urls[k])
                                 ELSE acc.result_urls[x]]])
             ELSE UploadLoop(Tail(keys), signed_urls, failing, acc)

\* lines 270-277: what zip -r leaves in results.zip: the files below
\* OUTPUT_DIR are added to the archive, or replace their entries
Zipped(b, dir) ==
  [entries |-> {f \in b.entries : f.name \notin Names(dir)} \cup dir,
   fresh |-> TRUE]

\* line 277
BundleUrls == [k \in {"results.zip"} |-> PathJoin(WORKSPACE_DIR, "results.zip")]

(***************************************************************************)
(* handler, lines 331-340: the response.                                   *)
(***************************************************************************)
\* the literal of logs[-20:] (line 336)
LogTail == 20

\* logs[-n:]
LastN(seq, n) ==
  IF Len(seq) <= n THEN seq ELSE SubSeq(seq, Len(seq) - n + 1, Len(seq))

\* "\n".join(lines)
RECURSIVE Join(_)
Join(lines) ==
  IF lines = << >> THEN ""
  ELSE IF Len(lines) = 1 THEN lines[1]
  ELSE lines[1] \o "\n" \o Join(Tail(lines))

\* line 336
LogSummary(lines) ==
  IF lines # << >> THEN Join(LastN(lines, LogTail)) ELSE "No logs available"

\* line 333
Status(ok) == IF ok THEN "success" ELSE "error"

Response(ok, result_urls, lines) ==
  [status |-> Status(ok),
   output |-> [files |-> result_urls, log_summary |-> LogSummary(lines)]]

\* handler, lines 328-340, with upload_results.  zip may exit non-zero
\* (check=True raises CalledProcessError).
Publish ==
  /\ UNCHANGED clientVars
  /\ pc = "publish"
  /\ \/ /\ SignedMode(input_data.signed_urls)
        /\ \E failing \in SUBSET (DOMAIN output_files
                                   \cap DOMAIN input_data.signed_urls) :
             LET r == UploadLoop(KeysOf(DOMAIN output_files),
                                 input_data.signed_urls, failing,
                                 [attempted |-> << >>, result_urls |-> NoFiles])
             IN  /\ attempted' = r.attempted
                 /\ failed' = failing
                 /\ Return(Response(success, r.result_urls, logs))
        /\ UNCHANGED bundle
     \/ /\ ~SignedMode(input_data.signed_urls)
        /\ bundle' = Zipped(bundle, outputDir)
        /\ Return(Response(success, BundleUrls, logs))
        /\ UNCHANGED <<attempted, failed>>
     \/ /\ ~SignedMode(input_data.signed_urls)
        /\ Raise("CalledProcessError: zip")
        /\ UNCHANGED <<bundle, attempted, failed>>
  /\ UNCHANGED <<job, input_data, found, datasetDirExists, datasetDir, inputDir,
                 outputDir, download_path, dataset_path,
                 config_path, dataloader_path, training_args, output_files>>
  /\ UNCHANGED trainVars

(***************************************************************************)
(* The worker: one job after the other.                                    *)
(***************************************************************************)
Next ==
  \/ \E e \in Requests : HandlerStart(e)
  \/ ResetDatasetDir
  \/ DownloadFile
  \/ ExtractOrMove
  \/ SaveConfigs
  \/ PrepareArgs
  \/ StartTraining
  \/ ReadLine
  \/ ReadEnd
  \/ WaitChild
  \/ Collect
  \/ Publish

Spec == Init /\ [][Next]_vars

(***************************************************************************)
(* SpecArgs: handler at line 315, for every config mapping of the bounds   *)
(* below, with and without a dataloader configuration, for the two dataset *)
(* paths download_dataset returns.                                         *)
(***************************************************************************)
ArgKeys == {"lr", "output_dir", "dataloader_config"}
ArgScalars ==
  {VBool(TRUE), VBool(FALSE), VInt(0), VInt(3), VStr(""), VStr("--lr"), VNone}
ArgItems == {VInt(0), VStr("--lr")}
ArgLists == UNION {[1..n -> ArgItems] : n \in 0..MaxItems}
ArgValues == ArgScalars \cup {VList(items) : items \in ArgLists}
ArgEntries == [k : ArgKeys, v : ArgValues]

\* the mappings of at most MaxEntries entries: no key twice
ArgMappings ==
  {c \in UNION {[1..n -> ArgEntries] : n \in 0..MaxEntries} :
     \A i, j \in DOMAIN c : i # j => c[i].k # c[j].k}

ArgRequests ==
  [dataset_url : {Url("http://", "x/data", ".zip", "")},
   config : {Mapping(c) : c \in ArgMappings} \cup {NotAMapping},
   dataloader : Dataloaders,
   signed_urls : {EmptyMap}]

InitArgs ==
  /\ job = 1
  /\ pc = "prepare_args"
  /\ input_data \in ArgRequests
  /\ datasetDirExists = TRUE
  /\ datasetDir = {}
  /\ inputDir = {File("dataset.zip", TRUE)}
  /\ outputDir = {}
  /\ bundle = [entries |-> {}, fresh |-> FALSE]
  /\ download_path = Path(INPUT_DIR, "dataset.zip")
  /\ dataset_path \in {Path(WORKSPACE_DIR, "dataset"), download_path}
  /\ config_path = Path(CONFIG_DIR, "config.json")
  /\ dataloader_path =
       IF input_data.dataloader # << >>
         THEN Path(CONFIG_DIR, "dataloader.json") ELSE NoPath
  /\ training_args = << >>
  /\ argv = << >>
  /\ log_open = FALSE
  /\ log_file = << >>
  /\ logged = << >>
  /\ logs = << >>
  /\ read_error = FALSE
  /\ unread = 0
  /\ returncode = -1
  /\ success = FALSE
  /\ output_files = NoFiles
  /\ attempted = << >>
  /\ failed = {}
  /\ raised = ""
  /\ found = "-"
  /\ result = NoResult
  /\ ClientInit

NextArgs == PrepareArgs

SpecArgs == InitArgs /\ [][NextArgs]_vars

(***************************************************************************)
(* SpecShell: run_training at its start, for every sequence of at most     *)
(* MaxTokens tokens, among them tokens with a space, with a ';', and the   *)
(* empty token (str of a list item "").                                    *)
(***************************************************************************)
MaxTokens == 3

TokenStrings == {"--caption", "3", "a photo", "x;id", ""}

TokenSequences == UNION {[1..n -> TokenStrings] : n \in 0..MaxTokens}

InitShell ==
  /\ job = 1
  /\ pc = "run_training"
  /\ input_data = [IdleRequest EXCEPT !.dataset_url = Url("http://", "x/data", ".zip", "")]
  /\ datasetDirExists = TRUE
  /\ datasetDir = {File("images/1.png", TRUE)}
  /\ inputDir = {File("dataset.zip", TRUE)}
  /\ outputDir = {}
  /\ bundle = [entries |-> {}, fresh |-> FALSE]
  /\ download_path = Path(INPUT_DIR, "dataset.zip")
  /\ dataset_path = Path(WORKSPACE_DIR, "dataset")
  /\ config_path = Path(CONFIG_DIR, "config.json")
  /\ dataloader_path = NoPath
  /\ training_args \in TokenSequences
  /\ argv = << >>
  /\ log_open = FALSE
  /\ log_file = << >>
  /\ logged = << >>
  /\ logs = << >>
  /\ read_error = FALSE
  /\ unread = 0
  /\ returncode = -1
  /\ success = FALSE
  /\ output_files = NoFiles
  /\ attempted = << >>
  /\ failed = {}
  /\ raised = ""
  /\ found = "-"
  /\ result = NoResult
  /\ ClientInit

NextShell == StartTraining

SpecShell == InitShell /\ [][NextShell]_vars

(***************************************************************************)
(* The remote client (run_remote_training.py).  A request of the client    *)
(* returns with status 200, with another status, or raises (no             *)
(* connection); the platform's job goes from status to status on its own.  *)
(***************************************************************************)
\* the polls the model counts; the client goes on polling beyond them
MaxPolls == 2

HttpOutcomes == {"200", "500", "raises"}

\* the mutant of TerminalStatuses: a cancelled job is polled on
TerminalStatusesNoCancel == {"COMPLETED", "FAILED"}

\* lines 211, 233: the statuses that end the polling loop
TerminalStatuses == {"COMPLETED", "FAILED", "CANCELLED"}

\* the statuses the platform reports for a job, and those it never
\* changes again
JobStatuses == {"IN_QUEUE", "IN_PROGRESS", "COMPLETED", "FAILED", "CANCELLED"}
FinalStatuses == {"COMPLETED", "FAILED", "CANCELLED"}

\* what load_json_file returns (lines 109-124): None, or the JSON value
ClientConfigs ==
  { NotAMapping, Mapping(<< >>),
    Mapping(<<[k |-> "num_epochs", v |-> VInt(3)]>>) }

\* lines 169, 175: not config
ConfigTruthy(config) == config.mapping /\ config.entries # << >>

\* what handler returned for a job the platform reports COMPLETED: a
\* response (handler.py, lines 331-340) of the bundle mode or of the
\* signed-URL mode, after a training that succeeded or failed, or nothing
JobOutputs ==
  { Response(ok, files, lines) :
      ok \in BOOLEAN,
      files \in { NoFiles, BundleUrls,
                  [k \in {"model.safetensors", LogName(1)} |-> "https://s/" \o k] },
      lines \in { << >>, <<Rstrip(RawLine(1))>> } }
    \cup {NoResult}

\* what a FAILED or CANCELLED job carries: handler's error result, or
\* nothing
FailedOutputs == {ErrorResult("CalledProcessError: zip"), NoResult}

\* line 216: output.get("output", {}).get("files", {})
FilesOf(out) ==
  IF "output" \in DOMAIN out THEN out.output.files ELSE NoFiles

\* line 226: output.get("output", {}).get("log_summary")
SummaryOf(out) ==
  IF "output" \in DOMAIN out THEN out.output.log_summary ELSE ""

\* line 237: status_response.get("output", {}).get("error")
ErrorOf(out) == IF "error" \in DOMAIN out THEN out.error ELSE ""

\* requests.get raises MissingSchema for a location without a scheme: the
\* path upload_results returns in bundle mode (handler.py, line 277)
HasScheme(url) == url # PathJoin(WORKSPACE_DIR, "results.zip")

\* the client ends: main returns, or an exception ends it
Stop(error) ==
  /\ cpc' = "stopped"
  /\ client_error' = error

\* lines 162-176: the configuration files are loaded
Main ==
  /\ cpc = "main"
  /\ \E config \in ClientConfigs, given \in BOOLEAN, dataloader \in ClientConfigs :
       IF ConfigTruthy(config) /\ (given => ConfigTruthy(dataloader))
         THEN cpc' = "create_session" /\ UNCHANGED client_error
         ELSE Stop("")
  /\ UNCHANGED <<http_steps, submits, polls, remote, status, output, pending,
                 downloads, printed>>
  /\ UNCHANGED handlerVars

\* the mutant of HttpOk: every answer counts as a success
HttpOkAny(r) == r # "raises"

\* lines 56, 89, 99: status_code != 200 ends the upload
HttpOk(r) == r = "200"

\* a request of the upload protocol, and how it ended
Request(step, r) == [step |-> step, status |-> r]

\* what upload_file_to_runpod does with the outcome r of a request: it
\* goes on, returns None (main returns, line 181), or the exception of
\* requests leaves main, which has no try block around line 179
Answered(r, next) ==
  CASE r = "raises" -> Stop("ConnectionError")
    [] r # "raises" /\ HttpOk(r) -> cpc' = next /\ UNCHANGED client_error
    [] OTHER -> Stop("")

\* upload_file_to_runpod, lines 46-58
CreateSession ==
  /\ cpc = "create_session"
  /\ \/ /\ Stop("")                                   \* line 48: no file
        /\ UNCHANGED http_steps
     \/ \E r \in HttpOutcomes :
          /\ http_steps' = Append(http_steps, Request("createSession", r))
          /\ Answered(r, "send_file")
  /\ UNCHANGED <<submits, polls, remote, status, output, pending, downloads,
                 printed>>
  /\ UNCHANGED handlerVars

\* upload_file_to_runpod, lines 64-91
SendFile ==
  /\ cpc = "send_file"
  /\ \E r \in HttpOutcomes :
       /\ http_steps' = Append(http_steps, Request("upload", r))
       /\ Answered(r, "fetch_url")
  /\ UNCHANGED <<submits, polls, remote, status, output, pending, downloads,
                 printed>>
  /\ UNCHANGED handlerVars

\* upload_file_to_runpod, lines 94-107, and main, lines 179-181: a
\* response without a url leaves dataset_url None
FetchUrl ==
  /\ cpc = "fetch_url"
  /\ \E r \in HttpOutcomes, has_url \in BOOLEAN :
       /\ http_steps' = Append(http_steps, Request("getUrl", r))
       /\ IF has_url THEN Answered(r, "run_job")
          ELSE Stop(IF r = "raises" THEN "ConnectionError" ELSE "")
  /\ UNCHANGED <<submits, polls, remote, status, output, pending, downloads,
                 printed>>
  /\ UNCHANGED handlerVars

\* main, lines 184-202: the job is submitted
RunJob ==
  /\ cpc = "run_job"
  /\ submits' = submits + 1
  /\ \/ /\ cpc' = "poll"                              \* an id is returned
        /\ remote' = "IN_QUEUE"
        /\ UNCHANGED client_error
     \/ /\ Stop("")                                   \* line 198: no id
        /\ UNCHANGED remote
     \/ /\ Stop("ConnectionError")                    \* line 248
        /\ UNCHANGED remote
  /\ UNCHANGED <<http_steps, polls, status, output, pending, downloads,
                 printed>>
  /\ UNCHANGED handlerVars

\* the count of a call, kept up to MaxPolls
Counted(n) == IF n < MaxPolls THEN n + 1 ELSE n

\* main, lines 208-246: one status check, and what main does with it
GetJob ==
  /\ cpc = "poll"
  /\ polls' = Counted(polls)
  /\ \/ /\ remote = "COMPLETED"                       \* lines 211-223
        /\ status' = remote
        /\ \E out \in JobOutputs :
             /\ output' = out
             /\ pending' = KeysOf(DOMAIN FilesOf(out))
             /\ cpc' = IF DOMAIN FilesOf(out) # {} THEN "download" ELSE "summary"
        /\ printed' = {"Job completed successfully!"}     \* line 212
        /\ UNCHANGED client_error
     \/ /\ remote \in TerminalStatuses \ {"COMPLETED"} \* lines 233-241
        /\ status' = remote
        /\ \E out \in FailedOutputs :
             /\ output' = out
             /\ printed' = IF ErrorOf(out) # "" THEN {"error"} ELSE {}
        /\ Stop("")
        /\ UNCHANGED pending
     \/ /\ remote \notin TerminalStatuses              \* lines 243-246
        /\ status' = remote
        /\ cpc' = "sleep"
        /\ UNCHANGED <<output, pending, printed, client_error>>
     \/ /\ Stop("ConnectionError")                    \* line 248
        /\ UNCHANGED <<status, output, pending, printed>>
  /\ UNCHANGED <<http_steps, submits, remote, downloads>>
  /\ UNCHANGED handlerVars

\* main, line 246: time.sleep(args.poll_interval) returns
Sleep ==
  /\ cpc = "sleep"
  /\ cpc' = "poll"
  /\ UNCHANGED <<http_steps, submits, polls, remote, status, output, pending,
                 downloads, printed, client_error>>
  /\ UNCHANGED handlerVars

\* download_results, lines 130-158: one entry of files.  A status that is
\* not 200 goes on to the next entry (line 141); an exception (of
\* requests.get, of open, of a write) leaves download_results and reaches
\* main's except clause (line 248).
DownloadResult ==
  /\ cpc = "download"
  /\ pending # << >>
  /\ downloads' = Append(downloads, Head(pending))
  /\ \/ /\ HasScheme(FilesOf(output)[Head(pending)])
        /\ \E r \in HttpOutcomes \ {"raises"} :
             printed' = IF r = "200" THEN printed \cup {Head(pending)}
                        ELSE printed
        /\ pending' = Tail(pending)
        /\ cpc' = IF Tail(pending) = << >> THEN "summary" ELSE "download"
        /\ UNCHANGED client_error
     \/ /\ Stop(IF HasScheme(FilesOf(output)[Head(pending)])
                  THEN "ConnectionError" ELSE "MissingSchema")
        /\ UNCHANGED <<pending, printed>>
  /\ UNCHANGED <<http_steps, submits, polls, remote, status, output>>
  /\ UNCHANGED handlerVars

\* main, lines 226-231: the log summary is printed when there is one
PrintLogSummary ==
  /\ cpc = "summary"
  /\ printed' = IF SummaryOf(output) # "" THEN printed \cup {"log_summary"}
                ELSE printed
  /\ Stop("")
  /\ UNCHANGED <<http_steps, submits, polls, remote, status, output, pending,
                 downloads>>
  /\ UNCHANGED handlerVars

\* the platform: the job of the client changes its status
RemoteStep ==
  /\ cpc \in {"poll", "sleep"}
  /\ remote \notin FinalStatuses
  /\ \E s \in JobStatuses \ {"IN_QUEUE", remote} : remote' = s
  /\ UNCHANGED <<cpc, http_steps, submits, polls, status, output, pending,
                 downloads, printed, client_error>>
  /\ UNCHANGED handlerVars

\* the steps of the client's process
ClientNext ==
  \/ Main
  \/ CreateSession
  \/ SendFile
  \/ FetchUrl
  \/ RunJob
  \/ GetJob
  \/ Sleep
  \/ DownloadResult
  \/ PrintLogSummary

NextClient == ClientNext \/ RemoteStep

\* the client's process runs as long as it has a step to take
SpecClient == Init /\ [][NextClient]_vars /\ WF_vars(ClientNext)

(***************************************************************************)
(* The claims.                                                             *)
(***************************************************************************)
\* the job went through run_training: the child was waited for
Trained == returncode # -1

\* the job went through collection and publishing
Published == pc = "done" /\ DOMAIN output_files # {}

\* nothing of the stages after acquisition has happened in this job
NoLaterStage ==
  /\ config_path = NoPath
  /\ dataloader_path = NoPath
  /\ training_args = << >>
  /\ ~log_open
  /\ logs = << >>
  /\ log_file = << >>
  /\ returncode = -1
  /\ output_files = NoFiles
  /\ attempted = << >>
  /\ ~bundle.fresh
  /\ \A f \in outputDir : ~f.fresh

\* the request names no dataset: dataset_url is missing, or empty
NoDatasetRef(u) == u = NoUrl \/ u = EmptyUrl

\* C1: handler never lets an exception escape: whatever stage raises, the
\* job ends with a result whose error is the exception's message and which
\* has a traceback; and every job that ends has a result.
C1_ExceptionBecomesResult ==
  /\ pc = "done" => DOMAIN result # {}
  /\ raised # "" =>
       /\ pc = "done"
       /\ DOMAIN result = {"error", "traceback"}
       /\ result.error = raised
       /\ result.traceback # ""

\* C1's case: training ended with exit code 0, and publishing raised
C1_Witness ==
  /\ pc = "done"
  /\ returncode = 0
  /\ raised = "CalledProcessError: zip"

\* C2, in every state: a job without a dataset reference ends with exactly
\* the one-key error and has run no later stage, nor reset the dataset
\* directory; a job whose acquisition returned no path ends with a result
\* that has an error and nothing else, and has run no later stage.
C2_State ==
  pc = "done" =>
    /\ NoDatasetRef(input_data.dataset_url) =>
         /\ result = [error |-> "No dataset_url provided in the input"]
         /\ found = "-"
         /\ NoLaterStage
    /\ (~NoDatasetRef(input_data.dataset_url)
          /\ dataset_path = NoPath /\ raised = "") =>
         /\ DOMAIN result = {"error"}
         /\ NoLaterStage

\* C2, in every step: the step that ends a job without a dataset reference
\* leaves every staging directory with the files it had.
C2_Step ==
  (pc' = "done" /\ NoDatasetRef(input_data'.dataset_url)) =>
    /\ datasetDirExists' = datasetDirExists
    /\ Names(datasetDir') = Names(datasetDir)
    /\ Names(inputDir') = Names(inputDir)
    /\ Names(outputDir') = Names(outputDir)
    /\ Names(bundle'.entries) = Names(bundle.entries)

\* C2: the input-validation short-circuit (C2_State always, C2_Step in
\* every step).
C2_ShortCircuit == [](C2_State) /\ [][C2_Step]_vars

\* C2's case: a second job without a dataset reference, on a worker whose
\* dataset directory the first job filled
C2_Witness ==
  /\ pc = "done"
  /\ job = 2
  /\ NoDatasetRef(input_data.dataset_url)
  /\ datasetDir # {}
  /\ result = [error |-> "No dataset_url provided in the input"]

\* C3, as claimed: for every job that reached training, whatever the exit
\* code and the publish mode, the result's files have an entry for the log
\* file under its base name.
C3_LogFileInFiles ==
  (pc = "done" /\ Trained) =>
    /\ "output" \in DOMAIN result
    /\ LogName(job) \in DOMAIN result.output.files

\* C4: succeeded is true exactly for exit code 0, and a response with a
\* status has "success" exactly when succeeded is true, "error" otherwise.
C4_StatusIsExitCode ==
  /\ Trained => (success <=> returncode = 0)
  /\ (pc = "done" /\ "status" \in DOMAIN result) =>
       /\ Trained
       /\ result.status = "success" <=> success
       /\ result.status = "error" <=> ~success

\* C4's case: the child exited 137 and the response says error
C4_Witness ==
  /\ pc = "done"
  /\ returncode = 137
  /\ "status" \in DOMAIN result
  /\ result.status = "error"

\* C5, as claimed: for every job that reached training and captured a
\* line, the result has log_summary, the last min(20, n) captured lines,
\* whether or not publishing succeeded.
C5_LogSummaryAlways ==
  (pc = "done" /\ Trained /\ logs # << >>) =>
    /\ "output" \in DOMAIN result
    /\ result.output.log_summary = Join(LastN(logs, 20))

\* C9: from the reset of download_dataset on, the dataset directory exists
\* and holds no file an earlier job left.
C9_DatasetDirReset ==
  pc \in {"downloading", "downloaded", "save_configs", "prepare_args",
          "run_training", "reading", "waiting", "collect", "publish"} =>
    /\ datasetDirExists
    /\ \A f \in datasetDir : f.fresh

\* C9's case: download_dataset has just reset a directory that held an
\* earlier job's files
C9_Witness ==
  /\ pc = "downloading"
  /\ found = "populated"
  /\ datasetDir = {}

Range(seq) == {seq[i] : i \in DOMAIN seq}

\* C10: with a non-empty signed-URL map an upload is attempted once for
\* exactly the keys both in the collected files and in the map, and no
\* bundle is made; with an absent or empty map no upload is attempted and
\* what upload_results returns has the one key results.zip, the bundle.
C10_ModeBySignedUrls ==
  Published =>
    IF DOMAIN input_data.signed_urls # {}
      THEN /\ Range(attempted) =
                DOMAIN output_files \cap DOMAIN input_data.signed_urls
           /\ Len(attempted) = Cardinality(Range(attempted))
           /\ ~bundle.fresh
           /\ "output" \in DOMAIN result
           /\ DOMAIN result.output.files \subseteq Range(attempted)
      ELSE /\ attempted = << >>
           /\ raised = "" =>
                /\ "output" \in DOMAIN result
                /\ DOMAIN result.output.files = {"results.zip"}
                /\ result.output.files["results.zip"] = "/workspace/results.zip"
                /\ bundle.fresh

\* C10's case: signed-URL mode, where a collected file (the log) has no
\* signed URL and the model file has one
C10_Witness ==
  /\ Published
  /\ attempted = <<"model.safetensors">>
  /\ LogName(job) \in DOMAIN output_files
  /\ LogName(job) \notin DOMAIN input_data.signed_urls

(***************************************************************************)
(* The claims about prepare_training_args, under SpecArgs.                 *)
(***************************************************************************)
Entries == input_data.config.entries

Occurs(tok, seq) == \E j \in DOMAIN seq : seq[j] = tok

Count(tok, seq) == Cardinality({j \in DOMAIN seq : seq[j] = tok})

\* the position of the i-th occurrence of tok in seq
Occurrence(tok, seq, i) ==
  CHOOSE p \in DOMAIN seq :
    seq[p] = tok /\ Cardinality({j \in 1..p : seq[j] = tok}) = i

\* a boolean false, an empty or falsy scalar, an empty list
ClaimFalsy(v) == v \in {VBool(FALSE), VStr(""), VInt(0), VList(<< >>)}

\* the flags prepare_training_args adds whatever the mapping holds
FixedFlags ==
  {"--train_data_dir", "--output_dir"}
    \cup (IF input_data.dataloader # << >> THEN {"--dataloader_config"} ELSE {})

\* the string forms an entry adds after its flag
ValueStrings(e) ==
  IF e.v.t \in {"str", "int"} /\ Truthy(e.v) THEN {Str(e.v)}
  ELSE IF e.v.t = "list" THEN {Str(e.v.items[m]) : m \in DOMAIN e.v.items}
  ELSE {}

\* C6, as claimed: for every falsy entry, the token --key occurs nowhere in
\* the tokens, for every key and every dataloader configuration.
C6_NoFlagForFalsy ==
  pc = "run_training" =>
    \A i \in DOMAIN Entries :
      ClaimFalsy(Entries[i].v) => ~Occurs(Flag(Entries[i].k), training_args)

\* C6, amended: for every falsy entry, the token --key occurs in the
\* tokens only where it is one of the fixed flags or the string form of a
\* value or list item of another entry.
C6_NoFlagForFalsyAmended ==
  pc = "run_training" =>
    \A i \in DOMAIN Entries :
      (ClaimFalsy(Entries[i].v) /\ Occurs(Flag(Entries[i].k), training_args))
        => \/ Flag(Entries[i].k) \in FixedFlags
           \/ \E j \in DOMAIN Entries \ {i} :
                Flag(Entries[i].k) \in ValueStrings(Entries[j])

\* C6's case: a falsy entry (lr: 0) beside an entry that adds tokens
C6_Witness ==
  /\ pc = "run_training"
  /\ Len(Entries) = 2
  /\ Entries[1] = [k |-> "lr", v |-> VInt(0)]
  /\ Truthy(Entries[2].v)
  /\ Len(training_args) > 4
  /\ ~Occurs("--lr", training_args)

\* the number of tokens the claims give an entry: one for true, two for a
\* non-empty scalar, two for each item of a list
TokenCount(v) ==
  CASE v.t = "bool" -> (IF v.b THEN 1 ELSE 0)
    [] v.t = "int" -> (IF v.n # 0 THEN 2 ELSE 0)
    [] v.t = "str" -> (IF v.s # "" THEN 2 ELSE 0)
    [] v.t = "list" -> 2 * Len(v.items)
    [] OTHER -> 0

\* where the tokens of entry i start: after the two fixed pairs and the
\* tokens of the entries before it
RECURSIVE Offset(_)
Offset(i) == IF i = 1 THEN 4 ELSE Offset(i - 1) + TokenCount(Entries[i - 1].v)

\* C7, as claimed: for every list entry with k >= 1 items, --key occurs
\* exactly k times and its m-th occurrence is followed by str(item m).
C7_FlagPerItem ==
  pc = "run_training" =>
    \A i \in DOMAIN Entries :
      (Entries[i].v.t = "list" /\ Len(Entries[i].v.items) >= 1) =>
        /\ Count(Flag(Entries[i].k), training_args) = Len(Entries[i].v.items)
        /\ \A m \in 1..Len(Entries[i].v.items) :
             LET p == Occurrence(Flag(Entries[i].k), training_args, m)
             IN  /\ p < Len(training_args)
                 /\ training_args[p + 1] = Str(Entries[i].v.items[m])

\* C7, amended: a list entry with k >= 1 items adds, at its place, the 2k
\* tokens --key, str(item 1), ..., --key, str(item k); and --key occurs
\* exactly k times when it is no fixed flag and no string form of a value
\* or item of the mapping.
C7_FlagPerItemAmended ==
  pc = "run_training" =>
    \A i \in DOMAIN Entries :
      (Entries[i].v.t = "list" /\ Len(Entries[i].v.items) >= 1) =>
        LET k == Len(Entries[i].v.items)
            flag == "--" \o Entries[i].k
        IN  /\ Len(training_args) >= Offset(i) + 2 * k
            /\ \A m \in 1..k :
                 /\ training_args[Offset(i) + 2 * m - 1] = flag
                 /\ training_args[Offset(i) + 2 * m] = Str(Entries[i].v.items[m])
            /\ (flag \notin FixedFlags
                  /\ \A j \in DOMAIN Entries : flag \notin ValueStrings(Entries[j]))
                 => Count(flag, training_args) = k

\* C7's case: a list of two items after an entry that adds tokens
C7_Witness ==
  /\ pc = "run_training"
  /\ Len(Entries) = 2
  /\ Entries[1].v = VInt(3)
  /\ Entries[2] = [k |-> "lr", v |-> VList(<<VInt(0), VInt(0)>>)]
  /\ Count("--lr", training_args) = 2

\* what the claims give as the encoding of one entry
ClaimedEntry(e) ==
  CASE e.v.t = "bool" /\ e.v.b -> <<"--" \o e.k>>
    [] e.v.t = "int" /\ e.v.n # 0 -> <<"--" \o e.k, ToString(e.v.n)>>
    [] e.v.t = "str" /\ e.v.s # "" -> <<"--" \o e.k, e.v.s>>
    [] e.v.t = "list" /\ e.v.items # << >> ->
         [p \in 1..(2 * Len(e.v.items)) |->
            IF p % 2 = 1 THEN "--" \o e.k ELSE Str(e.v.items[p \div 2])]
    [] OTHER -> << >>

RECURSIVE ClaimedEntries(_)
ClaimedEntries(n) ==
  IF n = 0 THEN << >> ELSE ClaimedEntries(n - 1) \o ClaimedEntry(Entries[n])

\* C8: for every config mapping prepare_training_args returns (it is
\* total), and what it returns is a function of the mapping, the dataset
\* path and the dataloader configuration alone: --train_data_dir, the
\* dataset path, --output_dir, the output dir, then the encodings of the
\* entries in insertion order, then the dataloader pair if there is one.
C8_Encoding ==
  /\ pc = "done" => ~input_data.config.mapping
  /\ pc = "run_training" =>
       training_args =
         <<"--train_data_dir", PathText(dataset_path),
           "--output_dir", "/workspace/outputs">>
           \o ClaimedEntries(Len(Entries))
           \o (IF input_data.dataloader # << >>
                 THEN <<"--dataloader_config", "/workspace/config/dataloader.json">>
                 ELSE << >>)

\* C8's case: a list of two items, then a true boolean, with a dataloader
\* configuration
C8_Witness ==
  /\ pc = "run_training"
  /\ Len(Entries) = 2
  /\ Entries[1].v = VList(<<VStr("--lr"), VInt(0)>>)
  /\ Entries[2].v = VBool(TRUE)
  /\ input_data.dataloader # << >>
  /\ Len(training_args) = 11

\* the three requests of the upload protocol, in the order of
\* upload_file_to_runpod
UploadSteps == <<"createSession", "upload", "getUrl">>

\* C11: each of the three upload requests is sent at most once and in the
\* order create session, send file, fetch URL; a request that did not end
\* with a success is the last thing the client did, no job having been
\* submitted; a job is submitted at most once and only after three
\* successes; and a submit that gave no job leaves the client stopped
\* without a status check.
C11_ProtocolGating ==
  /\ Len(http_steps) <= Len(UploadSteps)
  /\ \A i \in DOMAIN http_steps : http_steps[i].step = UploadSteps[i]
  /\ \A i \in DOMAIN http_steps :
       http_steps[i].status # "200" =>
         /\ i = Len(http_steps)
         /\ cpc = "stopped"
         /\ submits = 0
  /\ submits <= 1
  /\ submits = 1 =>
       /\ Len(http_steps) = Len(UploadSteps)
       /\ \A i \in DOMAIN http_steps : http_steps[i].status = "200"
  /\ (submits = 1 /\ remote = "") => (cpc = "stopped" /\ polls = 0)
  /\ polls > 0 => remote # ""

\* C11's case: the third request of the upload was refused, and the
\* client stopped without a job
C11_Witness ==
  /\ Len(http_steps) = 3
  /\ http_steps[3] = Request("getUrl", "500")
  /\ cpc = "stopped"
  /\ submits = 0

\* the client is in its polling loop (main, lines 207-246)
Polling == cpc \in {"poll", "sleep"}

\* C12, the steps of the loop: a status check that returns hands main the
\* job's status; the loop is left with COMPLETED, FAILED or CANCELLED and
\* for every other status the client sleeps, and after the sleep it checks
\* again, however many checks it has made.
C12_Step ==
  /\ (cpc = "poll" /\ cpc' # "poll" /\ client_error' = "") =>
       /\ status' = remote
       /\ status' \in {"COMPLETED", "FAILED", "CANCELLED"} <=> cpc' # "sleep"
  /\ (cpc = "sleep" /\ cpc' # "sleep") => cpc' = "poll"

\* C12, as claimed: the loop is left only with a status check that
\* returned COMPLETED, FAILED or CANCELLED
C12_LeftOnTerminalOnly ==
  (Polling /\ ~Polling') => status' \in {"COMPLETED", "FAILED", "CANCELLED"}

\* C12, amended: or with an exception of the status check
C12_LeftOnTerminalOrException ==
  (Polling /\ ~Polling') =>
     \/ status' \in {"COMPLETED", "FAILED", "CANCELLED"} /\ client_error' = ""
     \/ client_error' # "" /\ cpc' = "stopped" /\ status' = status

\* C12: once the remote job has a terminal status the client stops polling
C12_Live ==
  (Polling /\ remote \in {"COMPLETED", "FAILED", "CANCELLED"}) ~> ~Polling

\* C12, as claimed: the polling loop stops exactly when a status check
\* returns COMPLETED, FAILED or CANCELLED, polls again for every other
\* status without a bound, and stops once the job is terminal.
C12_PollingAsClaimed ==
  /\ [][C12_LeftOnTerminalOnly]_vars
  /\ [][C12_Step]_vars
  /\ C12_Live

\* C12, amended: the polling loop stops exactly when a status check
\* returns COMPLETED, FAILED or CANCELLED or raises an exception; for
\* every other status it sleeps and checks again, without a bound; and
\* once the job is terminal the client stops polling.
C12_PollingAmended ==
  /\ [][C12_LeftOnTerminalOrException]_vars
  /\ [][C12_Step]_vars
  /\ C12_Live

\* C12's case: after MaxPolls checks of a job in progress, a status check
\* raised and the client stopped
C12_Witness ==
  /\ polls = MaxPolls
  /\ status = "IN_PROGRESS"
  /\ client_error = "ConnectionError"
  /\ cpc = "stopped"

\* C13, as claimed: once a status check returned COMPLETED and the client
\* has ended, a download was attempted for every entry of the returned
\* files, and the log summary was printed if the result carries one.
C13_AllDownloadsThenSummary ==
  (status = "COMPLETED" /\ cpc = "stopped") =>
    /\ \A k \in DOMAIN FilesOf(output) : k \in Range(downloads)
    /\ SummaryOf(output) # "" => "log_summary" \in printed

\* the stages of a job, in the order of handler (lines 288-340), and the
\* stage the handler is in
Stages ==
  <<"idle", "received", "dataset_acquired", "configured", "training",
    "collecting", "publishing", "done">>

Stage(p) ==
  CASE p = "idle" -> 1
    [] p \in {"download_dataset", "downloading", "downloaded"} -> 2
    [] p \in {"save_configs", "prepare_args"} -> 3
    [] p = "run_training" -> 4
    [] p \in {"reading", "waiting"} -> 5
    [] p = "collect" -> 6
    [] p = "publish" -> 7
    [] p = "done" -> 8

\* C14, the states: a job has a result exactly when it is done, and a
\* stage has the results of the stages before it: the dataset path before
\* the configuration, the arguments before the training, the child's exit
\* before collecting, the collected files before publishing.
C14_State ==
  /\ pc = "done" <=> result # NoResult
  /\ (Stage(pc) \in 3..7) => dataset_path # NoPath
  /\ (Stage(pc) \in 4..7) => training_args # << >>
  /\ (Stage(pc) \in 6..7) => Trained
  /\ Stage(pc) = 7 => output_files # NoFiles
  /\ (Stage(pc) \in 1..4) => ~Trained
  /\ (Stage(pc) \in 1..6) => output_files = NoFiles

\* C14, the steps: within a job the handler stays in its stage, goes to
\* the next one, or ends the job; a job that is done stays done; the
\* training stage is followed by collecting and collecting by publishing,
\* whatever the child's exit code; and the result is set once, by the step
\* that ends the job.
C14_Step ==
  /\ job' = job =>
       /\ \/ Stage(pc') = Stage(pc)
          \/ Stage(pc') = Stage(pc) + 1
          \/ pc' = "done"
       /\ pc = "done" => pc' = "done"
       /\ result' # result => (pc # "done" /\ pc' = "done")
  /\ job' # job =>
       /\ pc \in {"idle", "done"}
       /\ job' = job + 1
       /\ Stage(pc') \in {2, 8}
  /\ (pc = "waiting" /\ pc' # pc) => (pc' = "collect" /\ returncode' # -1)
  /\ (pc = "collect" /\ pc' # pc) => pc' = "publish"

\* C14: the stages of a job follow each other in the order received,
\* dataset_acquired, configured, training, collecting, publishing, done;
\* none starts before the one before it has returned, none runs twice, a
\* non-zero exit of the training skips neither collecting nor publishing,
\* and a job returns exactly one result.
C14_StagesInOrder == [](C14_State) /\ [][C14_Step]_vars

\* C14's case: the second job of a worker went through every stage with a
\* child that exited 137, and returned its response
C14_Witness ==
  /\ job = 2
  /\ pc = "done"
  /\ returncode = 137
  /\ output_files # NoFiles
  /\ "output" \in DOMAIN result

\* C15, as claimed: at every point of run_training and after it, the
\* lines of the in-memory list, of the log file and of the logger are the
\* same lines in the same order, so that the number of lines returned is
\* the number of lines in the log file, an error while a line is
\* processed included.
C15_ViewsAgree ==
  /\ logged = logs
  /\ Len(log_file) = Len(logs)
  /\ \A i \in DOMAIN logs : log_file[i] = logs[i] \o "\n"

\* run_training was called in this job and control has left it
LeftRunTraining ==
  training_args # << >> /\ pc \in {"collect", "publish", "done"}

\* C16, as claimed: on every path out of run_training the log file it
\* opened is closed: a normal end, an exception while reading, and a child
\* that could not be spawned after the file was opened.
C16_LogFileClosed == LeftRunTraining => ~log_open

\* C17, as claimed: whatever happens to the child and to its supervision,
\* spawn failure included, run_training returns its triple: the caller has
\* the exit code's success flag and no exception of run_training.
C17_FailureIsData ==
  LeftRunTraining =>
    /\ Trained
    /\ success <=> returncode = 0
    /\ raised \notin {"OSError: open", "OSError: Popen"}

\* C18, as claimed: after an exception while reading the child's output,
\* run_training's wait for the child can return (and with it the log file
\* is closed and run_training returns), also for a child that has more
\* left to write than the pipe holds.
C18_WaitReturns ==
  (pc = "waiting" /\ read_error) => ENABLED WaitChild

\* C19: in signed-URL mode every collected file whose key is in the map
\* gets one upload attempt, whether or not an earlier upload failed, and
\* the files of the response are exactly the keys whose upload did not
\* fail, each with its signed URL up to the first '?'.
C19_UploadsIsolated ==
  (Published /\ SignedMode(input_data.signed_urls)) =>
    /\ Range(attempted) = DOMAIN output_files \cap DOMAIN input_data.signed_urls
    /\ Len(attempted) = Cardinality(Range(attempted))
    /\ failed \subseteq Range(attempted)
    /\ "output" \in DOMAIN result
    /\ DOMAIN result.output.files = Range(attempted) \ failed
    /\ \A k \in DOMAIN result.output.files :
         /\ result.output.files[k] = input_data.signed_urls[k].base
         /\ result.output.files[k] \o input_data.signed_urls[k].query =
              "https://s/" \o k \o "?sig=2"

\* C19's case: the first upload failed, the second was attempted and is
\* in the files of the response
C19_Witness ==
  /\ Published
  /\ Len(attempted) = 2
  /\ attempted[1] \in failed
  /\ attempted[2] \notin failed
  /\ "output" \in DOMAIN result
  /\ DOMAIN result.output.files = {attempted[2]}

\* the tokens hold the pair --dataloader_config <path of dataloader.json>
HasDataloaderPair(tokens) ==
  \E i \in 1..(Len(tokens) - 1) :
    /\ tokens[i] = "--dataloader_config"
    /\ tokens[i + 1] = PathJoin(CONFIG_DIR, "dataloader.json")

\* C20, as claimed: the training tokens hold the --dataloader_config pair
\* exactly when dataloader.json was persisted; when saving it failed the
\* job goes on and the tokens hold no such pair.
C20_PairIffPersisted ==
  (training_args # << >> /\ pc \in {"run_training", "reading", "waiting"}) =>
    (HasDataloaderPair(training_args) <=> dataloader_path # NoPath)

\* C21, as claimed: no error of download_dataset reaches its caller as an
\* exception, the errors of resetting the dataset directory included: the
\* job then ends with the acquisition error.
C21_DownloadNeverRaises ==
  /\ raised \notin {"OSError: rmtree", "OSError: makedirs"}
  /\ (pc = "done" /\ UrlTruthy(input_data.dataset_url) /\ dataset_path = NoPath)
       => result = [error |-> "Failed to download or extract dataset"]

\* C22, as claimed: the path a successful download_dataset returns is in
\* the dataset directory, never in the input directory, and the dataset
\* directory holds the acquired data: the extracted archive, or the file
\* that was moved there.
C22_DataInDatasetDir ==
  dataset_path # NoPath =>
    /\ dataset_path.dir # INPUT_DIR
    /\ datasetDir # {}

\* C23, as claimed: for a reference that is no HTTP(S) URL, the file
\* download_dataset has selected is a file this call downloaded, no file
\* an earlier job left in the input directory, and neither config.json nor
\* dataloader.json.
C23_SelectsOwnDownload ==
  (pc = "downloaded" /\ ~IsHttp(input_data.dataset_url)) =>
    /\ download_path.name \notin {"config.json", "dataloader.json"}
    /\ \A f \in inputDir : f.name = download_path.name => f.fresh

\* C25, as claimed: the files collected for a job and the entries of the
\* bundle made for it are files the job produced, none that an earlier
\* job left.
C25_OnlyThisJobsFiles ==
  Published =>
    /\ \A f \in outputDir : f.name \in DOMAIN output_files => f.fresh
    /\ bundle.fresh => \A f \in bundle.entries : f.fresh

\* C24, as claimed: the training script is started with exactly the
\* tokens it was given, token for token, also when a token holds a space
\* or a character the shell gives a meaning.
C24_ArgvIsTokens ==
  pc = "reading" => argv = training_args

\* line 333 of handler.py as the client gets it: the status of the job's
\* result ("": the result has none)
StatusOf(out) == IF "status" \in DOMAIN out THEN out.status ELSE ""

\* C26, as claimed: for a job whose result carries a status, the client
\* prints its success message only when that status is "success", not
\* for a COMPLETED job whose result has the status "error".
C26_SuccessOnlyOnSuccess ==
  ("Job completed successfully!" \in printed /\ StatusOf(output) # "") =>
    StatusOf(output) = "success"

====
